---- MODULE Spec2Model ----
(***************************************************************************)
(* A state-machine model of script.js: an interactive ellipse editor.      *)
(*                                                                         *)
(* Numbers.  The script computes in IEEE doubles; the model computes in    *)
(* fixed point.  Lengths and screen coordinates are integers counting      *)
(* hundredths of a pixel, shear factors count hundredths (the script only  *)
(* ever adds dx * 0.01 to them) and the rotation counts hundredths of a    *)
(* radian (rotationSpeed = 0.01).  Pointer coordinates are whole pixels,   *)
(* as offsetX/offsetY are.  Sines and cosines come from tables scaled by   *)
(* 10000; a product with a table entry is rounded to the grid, the way a   *)
(* double product is rounded to 53 bits.                                   *)
(***************************************************************************)
EXTENDS Integers, Sequences, FiniteSets, TLC

VARIABLES isDrawing, ellipseData, hasEllipse, showBoundingBox, editMode,
          isDragging, dragHandle, lastMousePos, activeAnchor,
          nEvents

vars == <<isDrawing, ellipseData, hasEllipse, showBoundingBox, editMode,
          isDragging, dragHandle, lastMousePos, activeAnchor,
          nEvents>>

(***************************************************************************)
(* Bounds of the model.                                                    *)
(***************************************************************************)
\* largest radius (pixels) a pointer-move may produce
MaxRadius == 20
\* largest |shearX|, |shearY| (hundredths) a pointer-move may produce
MaxShear == 100
\* largest |rotation| (hundredths of a radian) a pointer-move may produce
MaxRot == 20

\* number of events handled in one run
MaxEvents == 6

\* pointer positions (pixels) the events are drawn from
Points == { <<50, 50>>, <<50, 40>>, <<40, 50>>, <<40, 40>>, <<150, 150>> }
\* MouseEvent.button: 0 primary, 2 secondary
Buttons == {0, 2}

(***************************************************************************)
(* Fixed-point helpers.                                                    *)
(***************************************************************************)
Abs(n) == IF n < 0 THEN -n ELSE n

\* n pixels on the hundredth-of-a-pixel grid
Px(n) == n * 100

\* a / b rounded to the nearest integer, halves away from zero (b > 0)
RoundDiv(a, b) ==
  IF a >= 0 THEN (2 * a + b) \div (2 * b) ELSE -((2 * (-a) + b) \div (2 * b))

\* x times a table entry scaled by 10000
Scaled(x, c) == RoundDiv(x * c, 10000)

\* x times a factor counted in hundredths
Hundredths(x, f) == RoundDiv(x * f, 100)

Max2(a, b) == IF a >= b THEN a ELSE b

\* cos(2*pi*i/60) * 10000 at index i+1, i in 0..60
CosT ==
 << 10000, 9945, 9781, 9511, 9135, 8660, 8090, 7431, 6691, 5878, 5000, 4067,
    3090, 2079, 1045, 0, -1045, -2079, -3090, -4067, -5000, -5878, -6691,
    -7431, -8090, -8660, -9135, -9511, -9781, -9945, -10000, -9945, -9781,
    -9511, -9135, -8660, -8090, -7431, -6691, -5878, -5000, -4067, -3090,
    -2079, -1045, 0, 1045, 2079, 3090, 4067, 5000, 5878, 6691, 7431, 8090,
    8660, 9135, 9511, 9781, 9945, 10000 >>

\* sin(2*pi*i/60) * 10000 at index i+1, i in 0..60
SinT ==
 << 0, 1045, 2079, 3090, 4067, 5000, 5878, 6691, 7431, 8090, 8660, 9135,
    9511, 9781, 9945, 10000, 9945, 9781, 9511, 9135, 8660, 8090, 7431, 6691,
    5878, 5000, 4067, 3090, 2079, 1045, 0, -1045, -2079, -3090, -4067,
    -5000, -5878, -6691, -7431, -8090, -8660, -9135, -9511, -9781, -9945,
    -10000, -9945, -9781, -9511, -9135, -8660, -8090, -7431, -6691, -5878,
    -5000, -4067, -3090, -2079, -1045, 0 >>

\* cos(k/100) * 10000 at index k+1, k in 0..64
CosR ==
 << 10000, 10000, 9998, 9996, 9992, 9988, 9982, 9976, 9968, 9960, 9950,
    9940, 9928, 9916, 9902, 9888, 9872, 9856, 9838, 9820, 9801, 9780, 9759,
    9737, 9713, 9689, 9664, 9638, 9611, 9582, 9553, 9523, 9492, 9460, 9428,
    9394, 9359, 9323, 9287, 9249, 9211, 9171, 9131, 9090, 9048, 9004, 8961,
    8916, 8870, 8823, 8776, 8727, 8678, 8628, 8577, 8525, 8473, 8419, 8365,
    8309, 8253, 8196, 8139, 8080, 8021 >>

\* sin(k/100) * 10000 at index k+1, k in 0..64
SinR ==
 << 0, 100, 200, 300, 400, 500, 600, 699, 799, 899, 998, 1098, 1197, 1296,
    1395, 1494, 1593, 1692, 1790, 1889, 1987, 2085, 2182, 2280, 2377, 2474,
    2571, 2667, 2764, 2860, 2955, 3051, 3146, 3240, 3335, 3429, 3523, 3616,
    3709, 3802, 3894, 3986, 4078, 4169, 4259, 4350, 4439, 4529, 4618, 4706,
    4794, 4882, 4969, 5055, 5141, 5227, 5312, 5396, 5480, 5564, 5646, 5729,
    5810, 5891, 5972 >>

\* Math.cos / Math.sin of an angle counted in hundredths of a radian
MathCos(angle) == CosR[Abs(angle) + 1]
MathSin(angle) == IF angle >= 0 THEN SinR[angle + 1] ELSE -SinR[(-angle) + 1]

(***************************************************************************)
(* Utility functions of the script.                                        *)
(***************************************************************************)
rotatePoint(x, y, angle) ==
  << Scaled(x, MathCos(angle)) - Scaled(y, MathSin(angle)),
     Scaled(x, MathSin(angle)) + Scaled(y, MathCos(angle)) >>

shearPoint(x, y, shearX, shearY) ==
  << x + Hundredths(y, shearX), y + Hundredths(x, shearY) >>

\* the sample of index i (0..60): shear, then rotate, then translate
EllipsePoint(e, i) ==
  LET local == << Scaled(Px(e.radiusX), CosT[i + 1]),
                   Scaled(Px(e.radiusY), SinT[i + 1]) >>
      sh    == shearPoint(local[1], local[2], e.shearX, e.shearY)
      ro    == rotatePoint(sh[1], sh[2], e.rotation)
  IN  << ro[1] + e.centerX, ro[2] + e.centerY >>

\* the samples i = 0..60 (as a set: only their extremes are used)
getEllipsePoints(e) == {EllipsePoint(e, i) : i \in 0..60}

SetMin(S) == CHOOSE v \in S : \A w \in S : v <= w
SetMax(S) == CHOOSE v \in S : \A w \in S : v >= w

getEllipseBoundingBox(e) ==
  LET pts  == getEllipsePoints(e)
      xs   == {pt[1] : pt \in pts}
      ys   == {pt[2] : pt \in pts}
      minX == SetMin(xs)
      maxX == SetMax(xs)
      minY == SetMin(ys)
      maxY == SetMax(ys)
  IN  [x |-> minX, y |-> minY, width |-> maxX - minX, height |-> maxY - minY]

\* (mx, my) on the grid
isPointInBox(mx, my, box) ==
  /\ mx >= box.x
  /\ mx <= box.x + box.width
  /\ my >= box.y
  /\ my <= box.y + box.height

\* 1 - shearX * shearY, counted in ten-thousandths
ShearDet(e) == 10000 - e.shearX * e.shearY

\* |det| < 1e-10: on the ten-thousandth grid only det = 0 is that small
DegenerateShear(e) == ShearDet(e) = 0

\* isPointInEllipse that takes a degenerate shear for a hit
isPointInEllipse_Mut(mx, my, e) ==
  LET rot == rotatePoint(mx - e.centerX, my - e.centerY, -e.rotation)
      det == ShearDet(e)
      sgn == IF det < 0 THEN -1 ELSE 1
      lx  == sgn * RoundDiv((rot[1] * 100 - e.shearX * rot[2]) * 100, Abs(det))
      ly  == sgn * RoundDiv((rot[2] * 100 - e.shearY * rot[1]) * 100, Abs(det))
      val == (lx * lx) \div (e.radiusX * e.radiusX)
             + (ly * ly) \div (e.radiusY * e.radiusY)
  IN  IF DegenerateShear(e) THEN TRUE
      ELSE /\ e.radiusX # 0
           /\ e.radiusY # 0
           /\ Abs(lx) <= Px(e.radiusX)
           /\ Abs(ly) <= Px(e.radiusY)
           /\ val <= 10000

\* Radii are whole pixels (every assignment to them is a difference of
\* pointer coordinates, 0, 5 or 10), the local point is on the grid, and val
\* counts ten-thousandths.  A zero radius makes a term 0/0 (NaN) or x/0
\* (Infinity) and val <= 1 false.  A coordinate beyond its radius makes its
\* term exceed 1, so the squares are formed only within the radii.
isPointInEllipse(mx, my, e) ==
  LET rot == rotatePoint(mx - e.centerX, my - e.centerY, -e.rotation)
      det == ShearDet(e)
      sgn == IF det < 0 THEN -1 ELSE 1
      lx  == sgn * RoundDiv((rot[1] * 100 - e.shearX * rot[2]) * 100, Abs(det))
      ly  == sgn * RoundDiv((rot[2] * 100 - e.shearY * rot[1]) * 100, Abs(det))
      val == (lx * lx) \div (e.radiusX * e.radiusX)
             + (ly * ly) \div (e.radiusY * e.radiusY)
  IN  IF DegenerateShear(e) THEN FALSE
      ELSE /\ e.radiusX # 0
           /\ e.radiusY # 0
           /\ Abs(lx) <= Px(e.radiusX)
           /\ Abs(ly) <= Px(e.radiusY)
           /\ val <= 10000

(***************************************************************************)
(* Handles.                                                                *)
(***************************************************************************)
Null == [role |-> "null", x |-> 0, y |-> 0]

CornerRoles == {"top-left", "top-right", "bottom-left", "bottom-right"}
MiddleRoles == {"top-middle", "bottom-middle", "left-middle", "right-middle"}

\* role.includes('middle'), role.includes('left'), role.includes('top')
IncludesMiddle(role) == role \in MiddleRoles
IncludesLeft(role) == role \in {"top-left", "bottom-left", "left-middle"}
IncludesTop(role) == role \in {"top-left", "top-right", "top-middle"}

\* x / 2 on the grid
Half(x) == RoundDiv(x, 2)

getHandlesFromBox(box) ==
  LET midX == box.x + Half(box.width)
      midY == box.y + Half(box.height)
  IN << [x |-> box.x,             y |-> box.y,              role |-> "top-left"],
        [x |-> box.x + box.width, y |-> box.y,              role |-> "top-right"],
        [x |-> box.x,             y |-> box.y + box.height, role |-> "bottom-left"],
        [x |-> box.x + box.width, y |-> box.y + box.height, role |-> "bottom-right"],
        [x |-> midX,              y |-> box.y,              role |-> "top-middle"],
        [x |-> midX,              y |-> box.y + box.height, role |-> "bottom-middle"],
        [x |-> box.x,             y |-> midY,               role |-> "left-middle"],
        [x |-> box.x + box.width, y |-> midY,               role |-> "right-middle"] >>

\* dx*dx + dy*dy <= radius*radius with radius = 6 pixels; a handle further
\* than 6 pixels away on one axis is out of range, so the squares are formed
\* only for the near ones
HandleInRange(h, mx, my) ==
  LET dx == mx - h.x
      dy == my - h.y
  IN  /\ Abs(dx) <= Px(6)
      /\ Abs(dy) <= Px(6)
      /\ dx * dx + dy * dy <= Px(6) * Px(6)

\* findHandleHit that keeps the last handle in range instead of the first
findHandleHit_Mut(handles, mx, my) ==
  IF \E i \in DOMAIN handles : HandleInRange(handles[i], mx, my)
  THEN handles[CHOOSE i \in DOMAIN handles :
                 /\ HandleInRange(handles[i], mx, my)
                 /\ \A j \in (i + 1)..Len(handles) :
                       ~HandleInRange(handles[j], mx, my)]
  ELSE Null

findHandleHit(handles, mx, my) ==
  IF \E i \in DOMAIN handles : HandleInRange(handles[i], mx, my)
  THEN handles[CHOOSE i \in DOMAIN handles :
                 /\ HandleInRange(handles[i], mx, my)
                 /\ \A j \in 1..(i - 1) : ~HandleInRange(handles[j], mx, my)]
  ELSE Null

\* getOppositeCornerScreenCoord with the x of top-left's opposite corner
\* forgotten
getOppositeCornerScreenCoord_Mut(box, handleRole) ==
  CASE handleRole = "top-left" ->
         [x |-> box.x, y |-> box.y + box.height, role |-> "bottom-right"]
    [] handleRole = "top-right" ->
         [x |-> box.x, y |-> box.y + box.height, role |-> "bottom-left"]
    [] handleRole = "bottom-left" ->
         [x |-> box.x + box.width, y |-> box.y, role |-> "top-right"]
    [] handleRole = "bottom-right" ->
         [x |-> box.x, y |-> box.y, role |-> "top-left"]
    [] OTHER ->
         [x |-> box.x + Half(box.width), y |-> box.y + Half(box.height),
          role |-> "undefined"]

getOppositeCornerScreenCoord(box, handleRole) ==
  CASE handleRole = "top-left" ->
         [x |-> box.x + box.width, y |-> box.y + box.height, role |-> "bottom-right"]
    [] handleRole = "top-right" ->
         [x |-> box.x, y |-> box.y + box.height, role |-> "bottom-left"]
    [] handleRole = "bottom-left" ->
         [x |-> box.x + box.width, y |-> box.y, role |-> "top-right"]
    [] handleRole = "bottom-right" ->
         [x |-> box.x, y |-> box.y, role |-> "top-left"]
    [] OTHER ->
         [x |-> box.x + Half(box.width), y |-> box.y + Half(box.height),
          role |-> "undefined"]

computeEllipseCenterForBoxTopLeft(radiusX, radiusY, shearX, shearY, rotation, cornerType, cornerPoint) ==
  LET tempEllipse == [centerX |-> 0, centerY |-> 0,
                      radiusX |-> radiusX, radiusY |-> radiusY,
                      rotation |-> rotation,
                      shearX |-> shearX, shearY |-> shearY]
      box == getEllipseBoundingBox(tempEllipse)
  IN  CASE cornerType = "top-left" ->
             [centerX |-> cornerPoint.x - box.x,
              centerY |-> cornerPoint.y - box.y]
        [] cornerType = "top-right" ->
             [centerX |-> cornerPoint.x - (box.x + box.width),
              centerY |-> cornerPoint.y - box.y]
        [] cornerType = "bottom-right" ->
             [centerX |-> cornerPoint.x - (box.x + box.width),
              centerY |-> cornerPoint.y - (box.y + box.height)]
        [] cornerType = "bottom-left" ->
             [centerX |-> cornerPoint.x - box.x,
              centerY |-> cornerPoint.y - (box.y + box.height)]
        [] OTHER ->
             [centerX |-> 0, centerY |-> 0]

(***************************************************************************)
(* Main application.                                                       *)
(***************************************************************************)
Init ==
  /\ isDrawing = FALSE
  /\ ellipseData = [centerX |-> 0, centerY |-> 0, radiusX |-> 0, radiusY |-> 0,
                    rotation |-> 0, shearX |-> 0, shearY |-> 0,
                    activeHandle |-> Null]
  /\ hasEllipse = FALSE
  /\ showBoundingBox = FALSE
  /\ editMode = "resize-shear"
  /\ isDragging = FALSE
  /\ dragHandle = Null
  /\ lastMousePos = [x |-> 0, y |-> 0]
  /\ activeAnchor = Null
  /\ nEvents = 0

\* drawAll only paints: it reads the state and assigns none of it, so the
\* handlers below need no conjunct for their calls of it.  This is the anchor
\* cross it paints in a given state: none while the ellipse is being created
\* or when there is no active anchor, else the corner that
\* getOppositeCornerScreenCoord returns for the role of
\* ellipseData.activeHandle.
drawAll(drawing, has, e, anchor) ==
  IF ~has /\ drawing THEN Null
  ELSE IF anchor # Null
       THEN getOppositeCornerScreenCoord(getEllipseBoundingBox(e),
                                         e.activeHandle.role)
       ELSE Null

\* the handle roles drawAll passes to getOppositeCornerScreenCoord when it
\* runs in a given state
drawAllRoles(drawing, has, e, anchor) ==
  IF ~has /\ drawing THEN {}
  ELSE IF anchor # Null THEN {e.activeHandle.role} ELSE {}

\* the anchor of a drag that starts on hitHandle
AnchorFor(hitHandle, box) ==
  IF editMode = "rotate"
  THEN [x |-> ellipseData.centerX, y |-> ellipseData.centerY, role |-> "undefined"]
  ELSE IF IncludesMiddle(hitHandle.role)
       THEN [x |-> ellipseData.centerX, y |-> ellipseData.centerY,
             role |-> "undefined"]
       ELSE getOppositeCornerScreenCoord(box, hitHandle.role)

\* mousedown with a button other than 2, no finalized ellipse, not drawing
MouseDownFirst(mx, my) ==
  /\ ~hasEllipse /\ ~isDrawing
  /\ ellipseData' = [ellipseData EXCEPT !.centerX = Px(mx), !.centerY = Px(my),
                                        !.radiusX = 0, !.radiusY = 0]
  /\ isDrawing' = TRUE
  /\ UNCHANGED <<hasEllipse, showBoundingBox, editMode, isDragging, dragHandle,
                 activeAnchor>>

\* FinalRadii with the floor value in place of the default radius
FinalRadii_Mut(e) ==
  IF e.radiusX = 0 /\ e.radiusY = 0
  THEN [e EXCEPT !.radiusX = 5, !.radiusY = 5]
  ELSE e

\* the radii the second click finalizes
FinalRadii(e) ==
  IF e.radiusX = 0 /\ e.radiusY = 0
  THEN [e EXCEPT !.radiusX = 10, !.radiusY = 10]
  ELSE e

\* mousedown with a button other than 2, no finalized ellipse, drawing
MouseDownFinalize(mx, my) ==
  /\ ~hasEllipse /\ isDrawing
  /\ ellipseData' = FinalRadii(ellipseData)
  /\ isDrawing' = FALSE
  /\ hasEllipse' = TRUE
  /\ showBoundingBox' = TRUE
  /\ UNCHANGED <<editMode, isDragging, dragHandle, activeAnchor>>

\* ToggleEditMode that never leaves rotate
ToggleEditMode_Mut(mode) == "rotate"

\* resize-shear <-> rotate
ToggleEditMode(mode) == IF mode = "resize-shear" THEN "rotate" ELSE "resize-shear"

\* MouseDownVisible that hides the box on a click outside it
MouseDownVisible_Mut(mx, my) ==
  /\ hasEllipse /\ showBoundingBox
  /\ LET box       == getEllipseBoundingBox(ellipseData)
         handles   == getHandlesFromBox(box)
         hitHandle == findHandleHit(handles, Px(mx), Px(my))
     IN  IF hitHandle # Null
         THEN /\ isDragging' = TRUE
              /\ dragHandle' = hitHandle
              /\ ellipseData' = [ellipseData EXCEPT !.activeHandle = hitHandle]
              /\ activeAnchor' = AnchorFor(hitHandle, box)
              /\ UNCHANGED <<isDrawing, hasEllipse, showBoundingBox, editMode>>
         ELSE IF isPointInBox(Px(mx), Px(my), box)
         THEN /\ editMode' = ToggleEditMode(editMode)
              /\ UNCHANGED <<isDrawing, ellipseData, hasEllipse, showBoundingBox,
                             isDragging, dragHandle, activeAnchor>>
         ELSE /\ showBoundingBox' = FALSE
              /\ UNCHANGED <<isDrawing, ellipseData, hasEllipse, editMode,
                             isDragging, dragHandle, activeAnchor>>

\* mousedown with a button other than 2, ellipse finalized, box visible
MouseDownVisible(mx, my) ==
  /\ hasEllipse /\ showBoundingBox
  /\ LET box       == getEllipseBoundingBox(ellipseData)
         handles   == getHandlesFromBox(box)
         hitHandle == findHandleHit(handles, Px(mx), Px(my))
     IN  IF hitHandle # Null
         THEN /\ isDragging' = TRUE
              /\ dragHandle' = hitHandle
              /\ ellipseData' = [ellipseData EXCEPT !.activeHandle = hitHandle]
              /\ activeAnchor' = AnchorFor(hitHandle, box)
              /\ UNCHANGED <<isDrawing, hasEllipse, showBoundingBox, editMode>>
         ELSE IF isPointInBox(Px(mx), Px(my), box)
         THEN /\ editMode' = ToggleEditMode(editMode)
              /\ UNCHANGED <<isDrawing, ellipseData, hasEllipse, showBoundingBox,
                             isDragging, dragHandle, activeAnchor>>
         ELSE UNCHANGED <<isDrawing, ellipseData, hasEllipse, showBoundingBox,
                             editMode, isDragging, dragHandle, activeAnchor>>

\* MouseDownHidden that shows the box without resetting the edit mode
MouseDownHidden_Mut(mx, my) ==
  /\ hasEllipse /\ ~showBoundingBox
  /\ IF isPointInEllipse(Px(mx), Px(my), ellipseData)
     THEN /\ showBoundingBox' = TRUE
          /\ UNCHANGED <<isDrawing, ellipseData, hasEllipse, editMode,
                         isDragging, dragHandle, activeAnchor>>
     ELSE UNCHANGED <<isDrawing, ellipseData, hasEllipse, showBoundingBox,
                         editMode, isDragging, dragHandle, activeAnchor>>

\* mousedown with a button other than 2, ellipse finalized, box hidden
MouseDownHidden(mx, my) ==
  /\ hasEllipse /\ ~showBoundingBox
  /\ IF isPointInEllipse(Px(mx), Px(my), ellipseData)
     THEN /\ showBoundingBox' = TRUE
          /\ editMode' = "resize-shear"
          /\ UNCHANGED <<isDrawing, ellipseData, hasEllipse, isDragging,
                         dragHandle, activeAnchor>>
     ELSE UNCHANGED <<isDrawing, ellipseData, hasEllipse, showBoundingBox,
                         editMode, isDragging, dragHandle, activeAnchor>>

onMouseDown(mx, my, button) ==
  /\ lastMousePos' = [x |-> mx, y |-> my]
  /\ IF button = 2
     THEN UNCHANGED <<isDrawing, ellipseData, hasEllipse, showBoundingBox,
                         editMode, isDragging, dragHandle, activeAnchor>>
     ELSE \/ MouseDownFirst(mx, my)
          \/ MouseDownFinalize(mx, my)
          \/ MouseDownVisible(mx, my)
          \/ MouseDownHidden(mx, my)

\* MouseMoveCreate that already applies the floor of the corner resize
MouseMoveCreate_Mut(mx, my) ==
  /\ ~hasEllipse /\ isDrawing
  /\ ellipseData' = [ellipseData EXCEPT
                       !.radiusX = Max2(5, Abs(Px(mx) - ellipseData.centerX) \div 100),
                       !.radiusY = Max2(5, Abs(Px(my) - ellipseData.centerY) \div 100)]
  /\ ellipseData'.radiusX <= MaxRadius
  /\ ellipseData'.radiusY <= MaxRadius
  /\ UNCHANGED <<isDrawing, hasEllipse, showBoundingBox, editMode, isDragging,
                 dragHandle, lastMousePos, activeAnchor>>

\* mousemove while the ellipse is being created
MouseMoveCreate(mx, my) ==
  /\ ~hasEllipse /\ isDrawing
  /\ ellipseData' = [ellipseData EXCEPT
                       !.radiusX = Abs(Px(mx) - ellipseData.centerX) \div 100,
                       !.radiusY = Abs(Px(my) - ellipseData.centerY) \div 100]
  /\ ellipseData'.radiusX <= MaxRadius
  /\ ellipseData'.radiusY <= MaxRadius
  /\ UNCHANGED <<isDrawing, hasEllipse, showBoundingBox, editMode, isDragging,
                 dragHandle, lastMousePos, activeAnchor>>

\* ResizeCorner with the signs taken from the wrong words of the role
ResizeCorner_Mut(e, role, anchor, dx, dy) ==
  LET signX  == IF IncludesTop(role) THEN -1 ELSE 1
      signY  == IF IncludesLeft(role) THEN -1 ELSE 1
      rx     == Max2(5, e.radiusX + signX * dx)
      ry     == Max2(5, e.radiusY + signY * dy)
      center == computeEllipseCenterForBoxTopLeft(rx, ry, e.shearX, e.shearY,
                                                  e.rotation, anchor.role, anchor)
  IN  [e EXCEPT !.radiusX = rx, !.radiusY = ry,
                !.centerX = center.centerX, !.centerY = center.centerY]

\* the corner-resize step of a drag: new radii, then the new center
ResizeCorner(e, role, anchor, dx, dy) ==
  LET signX  == IF IncludesLeft(role) THEN -1 ELSE 1
      signY  == IF IncludesTop(role) THEN -1 ELSE 1
      rx     == Max2(5, e.radiusX + signX * dx)
      ry     == Max2(5, e.radiusY + signY * dy)
      center == computeEllipseCenterForBoxTopLeft(rx, ry, e.shearX, e.shearY,
                                                  e.rotation, anchor.role, anchor)
  IN  [e EXCEPT !.radiusX = rx, !.radiusY = ry,
                !.centerX = center.centerX, !.centerY = center.centerY]

\* DragStep that rotates by the vertical displacement
DragStep_MutRotate(e, mode, role, anchor, dx, dy) ==
  IF mode = "resize-shear"
  THEN IF IncludesMiddle(role)
       THEN IF role = "top-middle" \/ role = "bottom-middle"
            THEN [e EXCEPT !.shearX = e.shearX + dx]
            ELSE [e EXCEPT !.shearY = e.shearY + dy]
       ELSE ResizeCorner(e, role, anchor, dx, dy)
  ELSE [e EXCEPT !.rotation = e.rotation + dy]

\* DragStep that shears along the axis of the other pair of midpoints
DragStep_MutShear(e, mode, role, anchor, dx, dy) ==
  IF mode = "resize-shear"
  THEN IF IncludesMiddle(role)
       THEN IF role = "top-middle" \/ role = "bottom-middle"
            THEN [e EXCEPT !.shearY = e.shearY + dy]
            ELSE [e EXCEPT !.shearX = e.shearX + dx]
       ELSE ResizeCorner(e, role, anchor, dx, dy)
  ELSE [e EXCEPT !.rotation = e.rotation + dx]

\* the ellipse after one step of a drag by (dx, dy)
DragStep(e, mode, role, anchor, dx, dy) ==
  IF mode = "resize-shear"
  THEN IF IncludesMiddle(role)
       THEN IF role = "top-middle" \/ role = "bottom-middle"
            THEN [e EXCEPT !.shearX = e.shearX + dx]
            ELSE [e EXCEPT !.shearY = e.shearY + dy]
       ELSE ResizeCorner(e, role, anchor, dx, dy)
  ELSE [e EXCEPT !.rotation = e.rotation + dx]

\* mousemove while a handle is dragged
MouseMoveDrag(mx, my) ==
  /\ ~(~hasEllipse /\ isDrawing)
  /\ hasEllipse /\ isDragging /\ dragHandle # Null
  /\ lastMousePos' = [x |-> mx, y |-> my]
  /\ ellipseData' = DragStep(ellipseData, editMode, dragHandle.role, activeAnchor,
                             mx - lastMousePos.x, my - lastMousePos.y)
  /\ ellipseData'.radiusX <= MaxRadius
  /\ ellipseData'.radiusY <= MaxRadius
  /\ Abs(ellipseData'.shearX) <= MaxShear
  /\ Abs(ellipseData'.shearY) <= MaxShear
  /\ Abs(ellipseData'.rotation) <= MaxRot
  /\ UNCHANGED <<isDrawing, hasEllipse, showBoundingBox, editMode, isDragging,
                 dragHandle, activeAnchor>>

\* mousemove that is neither
MouseMoveIdle(mx, my) ==
  /\ ~(~hasEllipse /\ isDrawing)
  /\ ~(hasEllipse /\ isDragging /\ dragHandle # Null)
  /\ UNCHANGED <<isDrawing, ellipseData, hasEllipse, showBoundingBox, editMode,
                 isDragging, dragHandle, lastMousePos, activeAnchor>>

onMouseMove(mx, my) ==
  \/ MouseMoveCreate(mx, my)
  \/ MouseMoveDrag(mx, my)
  \/ MouseMoveIdle(mx, my)

\* onMouseUp that leaves the anchor cross in place
onMouseUp_Mut ==
  /\ isDragging' = FALSE
  /\ dragHandle' = Null
  /\ UNCHANGED <<isDrawing, ellipseData, hasEllipse, showBoundingBox, editMode,
                 lastMousePos, activeAnchor>>

onMouseUp ==
  /\ isDragging' = FALSE
  /\ dragHandle' = Null
  /\ activeAnchor' = Null
  /\ UNCHANGED <<isDrawing, ellipseData, hasEllipse, showBoundingBox, editMode,
                 lastMousePos>>

\* onContextMenu that also ends the drag
onContextMenu_Mut ==
  /\ showBoundingBox' = FALSE
  /\ isDragging' = FALSE
  /\ dragHandle' = Null
  /\ activeAnchor' = Null
  /\ UNCHANGED <<isDrawing, ellipseData, hasEllipse, editMode, lastMousePos>>

onContextMenu ==
  /\ showBoundingBox' = FALSE
  /\ UNCHANGED <<isDrawing, ellipseData, hasEllipse, editMode, isDragging,
                 dragHandle, lastMousePos, activeAnchor>>

\* the handler of this step ends in a call of drawAll: every path of the
\* four handlers but a secondary mousedown, a mousedown that grabs a handle,
\* a mousedown that changes nothing, and a mousemove that is neither a
\* preview nor a drag step
Redraws ==
  \/ onMouseUp
  \/ onContextMenu
  \/ \E p \in Points : MouseMoveCreate(p[1], p[2]) \/ MouseMoveDrag(p[1], p[2])
  \/ \E p \in Points, button \in Buttons \ {2} :
        /\ onMouseDown(p[1], p[2], button)
        /\ \/ ~hasEllipse
           \/ /\ hasEllipse /\ showBoundingBox
              /\ LET box == getEllipseBoundingBox(ellipseData)
                 IN  /\ findHandleHit(getHandlesFromBox(box), Px(p[1]), Px(p[2])) = Null
                     /\ isPointInBox(Px(p[1]), Px(p[2]), box)
           \/ /\ hasEllipse /\ ~showBoundingBox
              /\ isPointInEllipse(Px(p[1]), Px(p[2]), ellipseData)

\* one more event is delivered
Deliver ==
  /\ nEvents < MaxEvents
  /\ nEvents' = nEvents + 1

Next ==
  \/ \E p \in Points, button \in Buttons :
        Deliver /\ onMouseDown(p[1], p[2], button)
  \/ \E p \in Points : Deliver /\ onMouseMove(p[1], p[2])
  \/ Deliver /\ onMouseUp
  \/ Deliver /\ onContextMenu

Spec == Init /\ [][Next]_vars

\* The state two primary clicks at (50, 50) on the freshly loaded page lead
\* to: the default ellipse, finalized, its box visible.
InitCreated ==
  /\ isDrawing = FALSE
  /\ ellipseData = [centerX |-> Px(50), centerY |-> Px(50),
                    radiusX |-> 10, radiusY |-> 10,
                    rotation |-> 0, shearX |-> 0, shearY |-> 0,
                    activeHandle |-> Null]
  /\ hasEllipse = TRUE
  /\ showBoundingBox = TRUE
  /\ editMode = "resize-shear"
  /\ isDragging = FALSE
  /\ dragHandle = Null
  /\ lastMousePos = [x |-> 50, y |-> 50]
  /\ activeAnchor = Null
  /\ nEvents = 0

\* The runs of Spec, and the runs that go on from the default ellipse with a
\* fresh budget of events.
SpecCreated == (Init \/ InitCreated) /\ [][Next]_vars

(***************************************************************************)
(* Properties.                                                             *)
(***************************************************************************)
\* the shape parameters of an ellipse record
Geometry(e) == <<e.centerX, e.centerY, e.radiusX, e.radiusY, e.rotation,
                 e.shearX, e.shearY>>

\* buttons that onMouseDown does not return on
PrimaryButtons == Buttons \ {2}

\* the box and the handle a pointer-down at p would hit in the current state
BoxNow == getEllipseBoundingBox(ellipseData)
HitAt(p) == findHandleHit(getHandlesFromBox(BoxNow), Px(p[1]), Px(p[2]))

\* the screen position of the corner of a box named by a corner role
BoxCorner(box, role) ==
  << IF role \in {"top-left", "bottom-left"} THEN box.x ELSE box.x + box.width,
     IF role \in {"top-left", "top-right"} THEN box.y ELSE box.y + box.height >>

OppositeRole(role) ==
  CASE role = "top-left" -> "bottom-right"
    [] role = "bottom-right" -> "top-left"
    [] role = "top-right" -> "bottom-left"
    [] role = "bottom-left" -> "top-right"

\* a pointer-move in this state is processed as a corner resize
CornerResizing ==
  /\ hasEllipse /\ isDragging /\ dragHandle # Null
  /\ editMode = "resize-shear"
  /\ dragHandle.role \in CornerRoles

\* C1: whenever the shape is finalized (hasEllipse), both radii are at least 5.
C1_RadiusFloor ==
  hasEllipse => (ellipseData.radiusX >= 5 /\ ellipseData.radiusY >= 5)

\* C2: a pointer-move processed as a corner resize leaves the bounding-box
\* corner opposite the dragged handle at the screen position it had before
\* the move, for each of the four corners and every displacement.
C2_AnchorInvariant ==
  [][ \A p \in Points :
        (CornerResizing /\ onMouseMove(p[1], p[2]))
        => BoxCorner(getEllipseBoundingBox(ellipseData'),
                     OppositeRole(dragHandle.role))
           = BoxCorner(BoxNow, OppositeRole(dragHandle.role)) ]_vars

\* C3: a pointer-up leaves isDragging false, activeAnchor null and
\* ellipseData.activeHandle null, so that ellipseData.activeHandle is null in
\* every state with no drag in progress.
C3_PointerUpClears ==
  [][ /\ onMouseUp => /\ ~isDragging'
                      /\ activeAnchor' = Null
                      /\ ellipseData'.activeHandle = Null
      /\ ~isDragging' => ellipseData'.activeHandle = Null ]_vars

\* C4: in every state with no drag in progress the shear is non-degenerate.
C4_DegenerateOnlyWhileDragging ==
  ~isDragging => ~DegenerateShear(ellipseData)

\* a pointer-down at p with a button onMouseDown does not return on
PrimaryDownAt(p) == \E b \in PrimaryButtons : onMouseDown(p[1], p[2], b)

EditModes == {"resize-shear", "rotate"}

\* C5: a primary pointer-down at p1 in Idle fixes the center at p1 with zero
\* radii, and a primary pointer-down that follows with no pointer-move in
\* between finalizes the shape with center p1, both radii 10, no rotation, no
\* shear, the box visible, EditMode ResizeShear and no drag in progress.
C5_TwoClicksDefault ==
  [][ \A p \in Points :
        /\ (~hasEllipse /\ ~isDrawing /\ PrimaryDownAt(p))
           => /\ isDrawing' /\ ~hasEllipse'
              /\ ellipseData'.centerX = Px(p[1])
              /\ ellipseData'.centerY = Px(p[2])
              /\ ellipseData'.radiusX = 0 /\ ellipseData'.radiusY = 0
        /\ (/\ ~hasEllipse /\ isDrawing
            /\ ellipseData.radiusX = 0 /\ ellipseData.radiusY = 0
            /\ PrimaryDownAt(p))
           => /\ hasEllipse' /\ ~isDrawing'
              /\ Geometry(ellipseData')
                   = <<ellipseData.centerX, ellipseData.centerY, 10, 10, 0, 0, 0>>
              /\ showBoundingBox'
              /\ editMode' = "resize-shear"
              /\ ~isDragging' /\ dragHandle' = Null /\ activeAnchor' = Null ]_vars

\* two events, the first a click at (50, 50), the second a click at
\* (150, 150): the default ellipse sits at the first click
C5_Witness ==
  /\ nEvents = 2 /\ hasEllipse /\ showBoundingBox /\ ~isDragging
  /\ lastMousePos = [x |-> 150, y |-> 150]
  /\ Geometry(ellipseData) = <<Px(50), Px(50), 10, 10, 0, 0, 0>>

\* C6: a corner-resize pointer-move by (dx, dy) sets radiusX to
\* max(5, radiusX + signX*dx) and radiusY to max(5, radiusY + signY*dy), with
\* signX = -1 for the left corners and signY = -1 for the top corners, else
\* +1; both radii are then at least 5, and rotation and shear are unchanged.
C6_CornerResizeRadii ==
  [][ \A p \in Points :
        (CornerResizing /\ onMouseMove(p[1], p[2]))
        => LET dx    == p[1] - lastMousePos.x
               dy    == p[2] - lastMousePos.y
               signX == IF dragHandle.role \in {"top-left", "bottom-left"}
                        THEN -1 ELSE 1
               signY == IF dragHandle.role \in {"top-left", "top-right"}
                        THEN -1 ELSE 1
               rx    == ellipseData.radiusX + signX * dx
               ry    == ellipseData.radiusY + signY * dy
           IN  /\ ellipseData'.radiusX = (IF rx < 5 THEN 5 ELSE rx)
               /\ ellipseData'.radiusY = (IF ry < 5 THEN 5 ELSE ry)
               /\ ellipseData'.radiusX >= 5 /\ ellipseData'.radiusY >= 5
               /\ ellipseData'.rotation = ellipseData.rotation
               /\ ellipseData'.shearX = ellipseData.shearX
               /\ ellipseData'.shearY = ellipseData.shearY ]_vars

\* a corner drag has shrunk one radius onto the floor and left the other
\* above it, on a sheared ellipse
C6_Witness ==
  /\ CornerResizing
  /\ ellipseData.radiusX = 5 /\ ellipseData.radiusY > 5
  /\ ellipseData.shearY # 0

\* C7: a primary pointer-down that hits a handle while the box is visible
\* starts a drag of that handle; the anchor is the shape center in Rotate
\* mode and for a midpoint handle, and the opposite corner of the current
\* bounding box for a corner handle in ResizeShear mode; geometry, EditMode
\* and box visibility are unchanged.
C7_DragStart ==
  [][ \A p \in Points :
        (hasEllipse /\ showBoundingBox /\ PrimaryDownAt(p) /\ HitAt(p) # Null)
        => LET h == HitAt(p)
           IN  /\ isDragging'
               /\ dragHandle' = h
               /\ ellipseData'.activeHandle = h
               /\ <<activeAnchor'.x, activeAnchor'.y>>
                    = IF editMode = "rotate" \/ h.role \in MiddleRoles
                      THEN <<ellipseData.centerX, ellipseData.centerY>>
                      ELSE BoxCorner(BoxNow, OppositeRole(h.role))
               /\ Geometry(ellipseData') = Geometry(ellipseData)
               /\ editMode' = editMode
               /\ showBoundingBox' = showBoundingBox ]_vars

\* the third event grabbed the top-left handle of the default ellipse at
\* (50, 50) in ResizeShear mode: the anchor is the bottom-right corner
C7_Witness ==
  /\ nEvents = 3 /\ isDragging /\ editMode = "resize-shear"
  /\ dragHandle = [x |-> Px(40), y |-> Px(40), role |-> "top-left"]
  /\ activeAnchor = [x |-> Px(60), y |-> Px(60), role |-> "bottom-right"]

\* C8: a primary pointer-down inside the visible bounding box (bounds
\* included) that hits no handle flips EditMode between its two values (so
\* that two in a row restore it) and leaves the shape, the box visibility,
\* the drag flag, the active handle and the anchor unchanged; the pointer
\* position is recorded, as on every pointer-down.
C8_ToggleOnly ==
  [][ \A p \in Points :
        (/\ hasEllipse /\ showBoundingBox /\ PrimaryDownAt(p)
         /\ HitAt(p) = Null
         /\ Px(p[1]) >= BoxNow.x /\ Px(p[1]) <= BoxNow.x + BoxNow.width
         /\ Px(p[2]) >= BoxNow.y /\ Px(p[2]) <= BoxNow.y + BoxNow.height)
        => /\ editMode \in EditModes /\ editMode' \in EditModes
           /\ editMode' # editMode
           /\ ellipseData' = ellipseData
           /\ showBoundingBox' = showBoundingBox
           /\ isDragging' = isDragging
           /\ dragHandle' = dragHandle
           /\ activeAnchor' = activeAnchor ]_vars

\* the third event was a click at the center of the default ellipse, which
\* is inside the box and 10 pixels from the nearest handles: EditMode, which
\* only this click can change from its initial value, is Rotate
C8_Witness ==
  /\ nEvents = 3 /\ hasEllipse /\ showBoundingBox /\ ~isDragging
  /\ editMode = "rotate"
  /\ Geometry(ellipseData) = <<Px(50), Px(50), 10, 10, 0, 0, 0>>
  /\ lastMousePos = [x |-> 50, y |-> 50]

\* C9: a primary pointer-down while the box is hidden shows the box and sets
\* EditMode to ResizeShear when the point is inside the shape, and leaves
\* visibility and EditMode alone when it is outside; in both cases the drag
\* state and the shape are unchanged.
C9_HiddenClick ==
  [][ \A p \in Points :
        (hasEllipse /\ ~showBoundingBox /\ PrimaryDownAt(p))
        => /\ IF isPointInEllipse(Px(p[1]), Px(p[2]), ellipseData)
              THEN showBoundingBox' /\ editMode' = "resize-shear"
              ELSE ~showBoundingBox' /\ editMode' = editMode
           /\ ellipseData' = ellipseData
           /\ isDragging' = isDragging
           /\ dragHandle' = dragHandle
           /\ activeAnchor' = activeAnchor ]_vars

\* a box hidden in Rotate mode, a point inside the shape and one outside,
\* and an event still to come: both pointer-downs are then taken
C9_Witness ==
  /\ hasEllipse /\ ~showBoundingBox /\ editMode = "rotate"
  /\ nEvents < MaxEvents
  /\ \E p \in Points : isPointInEllipse(Px(p[1]), Px(p[2]), ellipseData)
  /\ \E p \in Points : ~isPointInEllipse(Px(p[1]), Px(p[2]), ellipseData)

\* C10 as stated: with degenerate shear the point-in-shape test is false at
\* every point, and a primary pointer-down while the box is hidden leaves the
\* whole controller state unchanged.
C10_DegenerateClickNoChange ==
  [][ \A p \in Points :
        /\ (hasEllipse /\ DegenerateShear(ellipseData))
           => ~isPointInEllipse(Px(p[1]), Px(p[2]), ellipseData)
        /\ (/\ hasEllipse /\ ~showBoundingBox /\ DegenerateShear(ellipseData)
            /\ PrimaryDownAt(p))
           => UNCHANGED <<isDrawing, ellipseData, hasEllipse, showBoundingBox,
                          editMode, isDragging, dragHandle, lastMousePos,
                          activeAnchor>> ]_vars

\* C10 as amended: with degenerate shear the point-in-shape test is false at
\* every point, and a primary pointer-down while the box is hidden changes
\* nothing but the recorded pointer position, which becomes the position of
\* the event.
C10_DegenerateClickRecordsPointer ==
  [][ \A p \in Points :
        /\ (hasEllipse /\ DegenerateShear(ellipseData))
           => ~isPointInEllipse(Px(p[1]), Px(p[2]), ellipseData)
        /\ (/\ hasEllipse /\ ~showBoundingBox /\ DegenerateShear(ellipseData)
            /\ PrimaryDownAt(p))
           => /\ lastMousePos' = [x |-> p[1], y |-> p[2]]
              /\ UNCHANGED <<isDrawing, ellipseData, hasEllipse,
                             showBoundingBox, editMode, isDragging,
                             dragHandle, activeAnchor>> ]_vars

\* the shear is degenerate, the box hidden, and a pointer-down at the center
\* of the ellipse came after the move to (150, 150) that made it so
C10_Witness ==
  /\ hasEllipse /\ ~showBoundingBox /\ DegenerateShear(ellipseData)
  /\ ellipseData.shearX # 0
  /\ lastMousePos = [x |-> 50, y |-> 50]

\* C11: a secondary (context) action on a finalized shape, drag in progress
\* or not, hides the box and leaves the geometry, EditMode, the drag flag,
\* the active handle and the anchor unchanged; the secondary pointer-down
\* that comes with it changes none of these either.
C11_ContextHides ==
  [][ /\ (hasEllipse /\ onContextMenu)
         => /\ hasEllipse' /\ ~showBoundingBox'
            /\ Geometry(ellipseData') = Geometry(ellipseData)
            /\ editMode' = editMode
            /\ isDragging' = isDragging
            /\ dragHandle' = dragHandle
            /\ ellipseData'.activeHandle = ellipseData.activeHandle
            /\ activeAnchor' = activeAnchor
      /\ \A p \in Points :
           (hasEllipse /\ onMouseDown(p[1], p[2], 2))
           => /\ Geometry(ellipseData') = Geometry(ellipseData)
              /\ editMode' = editMode
              /\ showBoundingBox' = showBoundingBox
              /\ isDragging' = isDragging
              /\ dragHandle' = dragHandle
              /\ ellipseData'.activeHandle = ellipseData.activeHandle
              /\ activeAnchor' = activeAnchor ]_vars

\* the box was hidden while a handle is being dragged in Rotate mode, and
\* the drag goes on
C11_Witness ==
  /\ hasEllipse /\ ~showBoundingBox
  /\ isDragging /\ dragHandle # Null /\ activeAnchor # Null
  /\ editMode = "rotate"

\* a pointer-move in this state is processed as a step of a drag
DragMoving == hasEllipse /\ isDragging /\ dragHandle # Null

\* C12: a pointer-move while dragging in Rotate mode with horizontal
\* displacement dx adds dx * 0.01 to the rotation and changes no other shape
\* parameter; the vertical displacement has no effect, and a move with
\* dx = 0 leaves the whole shape record unchanged.
C12_RotateMove ==
  [][ \A p \in Points :
        (DragMoving /\ editMode = "rotate" /\ onMouseMove(p[1], p[2]))
        => LET dx == p[1] - lastMousePos.x
           IN  /\ ellipseData' = [ellipseData EXCEPT
                                    !.rotation = ellipseData.rotation + dx]
               /\ (dx = 0 => ellipseData' = ellipseData) ]_vars

\* a drag in Rotate mode has turned the default ellipse at (50, 50) by a
\* tenth of a radian, with the pointer taken 10 pixels right and 10 down
C12_Witness ==
  /\ DragMoving /\ editMode = "rotate"
  /\ Geometry(ellipseData) = <<Px(50), Px(50), 10, 10, 10, 0, 0>>
  /\ dragHandle = [x |-> Px(40), y |-> Px(40), role |-> "top-left"]
  /\ lastMousePos = [x |-> 50, y |-> 50]

\* C13: a pointer-move while dragging a midpoint handle in ResizeShear mode
\* adds dx * 0.01 to shearX alone for top-middle and bottom-middle, and
\* dy * 0.01 to shearY alone for left-middle and right-middle, (dx, dy)
\* being the displacement from the recorded pointer position; center, radii
\* and rotation are unchanged.
C13_ShearMove ==
  [][ \A p \in Points :
        (/\ DragMoving /\ editMode = "resize-shear"
         /\ dragHandle.role \in MiddleRoles
         /\ onMouseMove(p[1], p[2]))
        => LET dx == p[1] - lastMousePos.x
               dy == p[2] - lastMousePos.y
           IN  IF dragHandle.role \in {"top-middle", "bottom-middle"}
               THEN ellipseData' = [ellipseData EXCEPT
                                      !.shearX = ellipseData.shearX + dx]
               ELSE ellipseData' = [ellipseData EXCEPT
                                      !.shearY = ellipseData.shearY + dy] ]_vars

\* the top-middle handle of the default ellipse at (50, 50) was dragged from
\* (50, 40) to (40, 50): shearX is -0.10 and shearY still 0
C13_Witness ==
  /\ DragMoving /\ editMode = "resize-shear"
  /\ dragHandle = [x |-> Px(50), y |-> Px(40), role |-> "top-middle"]
  /\ Geometry(ellipseData) = <<Px(50), Px(50), 10, 10, 0, -10, 0>>
  /\ lastMousePos = [x |-> 40, y |-> 50]

\* C14: while the shape is being created a pointer-move to (mx, my) sets
\* radiusX = |mx - centerX| and radiusY = |my - centerY|, unclamped, and
\* does not move the center; the shape has no shear and no rotation, and its
\* bounding box is exactly {centerX - radiusX, centerY - radiusY,
\* 2 * radiusX, 2 * radiusY}.
C14_CreatingMove ==
  [][ \A p \in Points :
        (~hasEllipse /\ isDrawing /\ onMouseMove(p[1], p[2]))
        => LET rx == Abs(p[1] - ellipseData.centerX \div 100)
               ry == Abs(p[2] - ellipseData.centerY \div 100)
           IN  /\ Geometry(ellipseData')
                    = <<ellipseData.centerX, ellipseData.centerY, rx, ry, 0, 0, 0>>
               /\ getEllipseBoundingBox(ellipseData')
                    = [x      |-> ellipseData.centerX - Px(rx),
                       y      |-> ellipseData.centerY - Px(ry),
                       width  |-> 2 * Px(rx),
                       height |-> 2 * Px(ry)] ]_vars

\* the preview of a shape centered at (40, 50) after a move to (50, 50):
\* radiusX is 10, radiusY is 0, below the floor of the corner resize
C14_Witness ==
  /\ ~hasEllipse /\ isDrawing
  /\ Geometry(ellipseData) = <<Px(40), Px(50), 10, 0, 0, 0, 0>>

\* C15: getOppositeCornerScreenCoord is never called with a midpoint role:
\* not by the pointer-down that starts a corner drag, and not by the redraw
\* that ends the handling of an event.
C15_FallbackDead ==
  [][ /\ \A p \in Points :
           (/\ hasEllipse /\ showBoundingBox /\ PrimaryDownAt(p)
            /\ HitAt(p) # Null /\ editMode = "resize-shear"
            /\ ~IncludesMiddle(HitAt(p).role))
           => HitAt(p).role \notin MiddleRoles
      /\ Redraws
         => drawAllRoles(isDrawing', hasEllipse', ellipseData', activeAnchor')
              \cap MiddleRoles = {} ]_vars

\* the positions in the handle sequence of the current box that lie within
\* 6 pixels of pointer position p: squared distance at most 36
NearHandles(p) ==
  LET hs == getHandlesFromBox(BoxNow)
  IN  {i \in 1..8 : (Px(p[1]) - hs[i].x) * (Px(p[1]) - hs[i].x)
                    + (Px(p[2]) - hs[i].y) * (Px(p[2]) - hs[i].y)
                    <= 36 * 100 * 100}

\* C16: the handles are tried in the order top-left, top-right, bottom-left,
\* bottom-right, top-middle, bottom-middle, left-middle, right-middle; the
\* hit is the first one within squared distance 36 of the pointer, and none
\* when no handle is that close; with several in range a corner wins over a
\* midpoint, and the drag a pointer-down starts is a drag of that first one.
C16_FirstHandleHit ==
  [][ \A p \in Points :
        (hasEllipse /\ showBoundingBox /\ PrimaryDownAt(p))
        => LET hs   == getHandlesFromBox(BoxNow)
               near == NearHandles(p)
           IN  /\ [i \in 1..8 |-> hs[i].role]
                    = <<"top-left", "top-right", "bottom-left", "bottom-right",
                        "top-middle", "bottom-middle", "left-middle",
                        "right-middle">>
               /\ IF near = {}
                  THEN /\ HitAt(p) = Null
                       /\ dragHandle' = dragHandle
                       /\ isDragging' = isDragging
                  ELSE /\ HitAt(p) = hs[SetMin(near)]
                       /\ isDragging'
                       /\ dragHandle' = hs[SetMin(near)]
                       /\ (near \cap 1..4 # {}
                            => dragHandle'.role \in CornerRoles) ]_vars

\* a pointer-down on the top-left corner of a box 10 pixels wide and high,
\* where the top-middle and left-middle handles are in range too, started a
\* drag of the corner
C16_Witness ==
  /\ hasEllipse /\ showBoundingBox /\ isDragging
  /\ ellipseData.radiusX = 5 /\ ellipseData.radiusY = 5
  /\ dragHandle = getHandlesFromBox(BoxNow)[1]
  /\ Px(lastMousePos.x) = dragHandle.x /\ Px(lastMousePos.y) = dragHandle.y
  /\ {1, 5, 7} \subseteq NearHandles(<<lastMousePos.x, lastMousePos.y>>)

\* C17: after every event handler the drag bookkeeping is consistent:
\* isDragging exactly when dragHandle is non-null and exactly when
\* activeAnchor is non-null; a non-null anchor comes with a non-null
\* ellipseData.activeHandle; a drag and a visible box each need a finalized
\* shape; isDrawing and hasEllipse are never both true; and hasEllipse,
\* once true, stays true.
C17_Bookkeeping ==
  [][ /\ isDragging' <=> dragHandle' # Null
      /\ isDragging' <=> activeAnchor' # Null
      /\ activeAnchor' # Null => ellipseData'.activeHandle # Null
      /\ isDragging' => hasEllipse'
      /\ showBoundingBox' => hasEllipse'
      /\ ~(isDrawing' /\ hasEllipse')
      /\ hasEllipse => hasEllipse' ]_vars

\* a drag has started and ended, and the box was hidden: the handle of that
\* drag is still recorded in the shape, the rest of the bookkeeping is clear
C17_Witness ==
  /\ hasEllipse /\ ~showBoundingBox /\ ~isDrawing
  /\ ~isDragging /\ dragHandle = Null /\ activeAnchor = Null
  /\ ellipseData.activeHandle # Null

\* C18: from the pointer-down that starts a drag to the next pointer-up,
\* EditMode, the active handle and the anchor do not change, whatever
\* pointer-down, pointer-move and secondary events come in between.
C18_DragStable ==
  [][ (isDragging /\ isDragging')
      => /\ editMode' = editMode
         /\ dragHandle' = dragHandle
         /\ ellipseData'.activeHandle = ellipseData.activeHandle
         /\ activeAnchor' = activeAnchor ]_vars

\* C19: a hidden box can always be brought back: the point-in-shape test is
\* true at the center of every finalized shape whose box is hidden.
C19_CenterInside ==
  (hasEllipse /\ ~showBoundingBox)
  => isPointInEllipse(ellipseData.centerX, ellipseData.centerY, ellipseData)

\* shape geometry, EditMode, box visibility and the Creating and Dragging
\* flags are the same after the step as before
NothingObservable ==
  /\ Geometry(ellipseData') = Geometry(ellipseData)
  /\ editMode' = editMode
  /\ showBoundingBox' = showBoundingBox
  /\ isDrawing' = isDrawing
  /\ isDragging' = isDragging

\* C20: a pointer-move when the shape is neither being created nor dragged,
\* a primary pointer-down with the box visible that hits no handle and lies
\* outside the box, and a pointer-up with no drag in progress each leave
\* the geometry, EditMode, the box visibility and the Creating and Dragging
\* flags unchanged.
C20_NoOpEvents ==
  [][ /\ \A p \in Points :
           /\ (/\ ~(~hasEllipse /\ isDrawing) /\ ~isDragging
               /\ onMouseMove(p[1], p[2]))
              => NothingObservable
           /\ (/\ hasEllipse /\ showBoundingBox /\ PrimaryDownAt(p)
               /\ HitAt(p) = Null
               /\ \/ Px(p[1]) < BoxNow.x \/ Px(p[1]) > BoxNow.x + BoxNow.width
                  \/ Px(p[2]) < BoxNow.y \/ Px(p[2]) > BoxNow.y + BoxNow.height)
              => NothingObservable
      /\ (~isDragging /\ onMouseUp) => NothingObservable ]_vars

\* the third event reached the default ellipse at (40, 40) with the pointer
\* at (150, 150), far outside its box: box visible, ResizeShear, no drag
C20_Witness ==
  /\ nEvents = 3 /\ hasEllipse /\ showBoundingBox /\ ~isDragging
  /\ editMode = "resize-shear"
  /\ Geometry(ellipseData) = <<Px(40), Px(40), 10, 10, 0, 0, 0>>
  /\ lastMousePos = [x |-> 150, y |-> 150]

====
